---- MODULE Spec2Model ----
(***************************************************************************)
(* Model of the angle crate (src/src/lib.rs): the newtypes Deg<N> and      *)
(* Rad<N>, their conversions, approx_eq, Display and the inexact_eq!       *)
(* macro.                                                                  *)
(*                                                                         *)
(* N is a binary floating-point type with round-to-nearest-even            *)
(* arithmetic.  The real instances are f32 (24-bit significand) and f64    *)
(* (53-bit significand); the model keeps the same arithmetic at a reduced  *)
(* width: a narrow format F32 standing for f32 and a wider format F64      *)
(* standing for f64.  A float is the record                                *)
(*     [k |-> "nan" | "inf" | "fin", s |-> sign bit, m |-> significand,    *)
(*      e |-> exponent of the last place]                                  *)
(* and a finite one has the value (-1)^s * m * 2^e.                        *)
(***************************************************************************)
EXTENDS Integers, Sequences, FiniteSets, TLC

\* ------------------------------------------------------------------------
\* Bounds of the floating-point formats
\* ------------------------------------------------------------------------
\* significand width of the narrow format
P == 6
\* the narrow format's smallest normal exponent is -MinExpMag
MinExpMag == 10
\* the narrow format's largest exponent
MaxExp == 7
\* additional significand bits of the wide format
ExtraBits == 2
\* additional exponent range of the wide format, on both sides
ExtraExp == 1

F32 == [p |-> P, emin |-> 0 - MinExpMag, emax |-> MaxExp]
F64 == [p |-> P + ExtraBits, emin |-> 0 - (MinExpMag + ExtraExp), emax |-> MaxExp + ExtraExp]

\* ------------------------------------------------------------------------
\* IEEE-754 arithmetic, round to nearest, ties to even
\* ------------------------------------------------------------------------
NaN == [k |-> "nan", s |-> 0, m |-> 0, e |-> 0]
Inf(s) == [k |-> "inf", s |-> s, m |-> 0, e |-> 0]
Zero(s) == [k |-> "fin", s |-> s, m |-> 0, e |-> 0]
Fin(s, m, e) == [k |-> "fin", s |-> s, m |-> m, e |-> e]

IsNaN(x) == x.k = "nan"
IsInf(x) == x.k = "inf"
IsFinite(x) == x.k = "fin"
IsZero(x) == x.k = "fin" /\ x.m = 0

Min2(a, b) == IF a < b THEN a ELSE b
Max2(a, b) == IF a > b THEN a ELSE b
Xor(a, b) == IF a = b THEN 0 ELSE 1

RECURSIVE BitLen(_)
BitLen(M) == IF M = 0 THEN 0 ELSE 1 + BitLen(M \div 2)

\* exponent of the last place of the smallest subnormal
QMin(f) == f.emin - f.p + 1
\* exponent of the last place of the largest binade
QMax(f) == f.emax - f.p + 1

\* The float of format f nearest to (-1)^s * (M * 2^E + t), where the
\* sticky flag says that 0 < t < 2^E was dropped (it is set only by
\* callers that supply at least p + 2 bits in M).
Round(f, s, M, E, sticky) ==
    IF M = 0 THEN Zero(s)
    ELSE LET q == Max2(E + BitLen(M) - f.p, QMin(f))
         IN IF q <= E
            THEN IF q > QMax(f) THEN Inf(s) ELSE Fin(s, M * 2^(E - q), q)
            ELSE LET sh == q - E
                     m0 == M \div 2^sh
                     rem == M % 2^sh
                     half == 2^(sh - 1)
                     up == rem > half \/ (rem = half /\ (sticky \/ m0 % 2 = 1))
                     m1 == IF up THEN m0 + 1 ELSE m0
                     m2 == IF m1 = 2^f.p THEN 2^(f.p - 1) ELSE m1
                     q2 == IF m1 = 2^f.p THEN q + 1 ELSE q
                 IN IF m2 = 0 THEN Zero(s)
                    ELSE IF q2 > QMax(f) THEN Inf(s)
                    ELSE Fin(s, m2, q2)

FNeg(x) == IF IsNaN(x) THEN NaN ELSE [x EXCEPT !.s = 1 - x.s]

FAbs(x) == IF IsNaN(x) THEN NaN ELSE [x EXCEPT !.s = 0]

FMul(f, x, y) ==
    IF IsNaN(x) \/ IsNaN(y) THEN NaN
    ELSE IF IsInf(x) \/ IsInf(y)
         THEN IF IsZero(x) \/ IsZero(y) THEN NaN ELSE Inf(Xor(x.s, y.s))
    ELSE Round(f, Xor(x.s, y.s), x.m * y.m, x.e + y.e, FALSE)

FDiv(f, x, y) ==
    IF IsNaN(x) \/ IsNaN(y) THEN NaN
    ELSE IF IsInf(x) THEN (IF IsInf(y) THEN NaN ELSE Inf(Xor(x.s, y.s)))
    ELSE IF IsInf(y) THEN Zero(Xor(x.s, y.s))
    ELSE IF IsZero(y) THEN (IF IsZero(x) THEN NaN ELSE Inf(Xor(x.s, y.s)))
    ELSE IF IsZero(x) THEN Zero(Xor(x.s, y.s))
    ELSE LET sh == 2 * f.p + 1
             num == x.m * 2^sh
         IN Round(f, Xor(x.s, y.s), num \div y.m, x.e - y.e - sh, num % y.m # 0)

\* the signed integer v with x = v * 2^e, for a finite x and e <= x.e
Scaled(x, e) == IF x.m = 0 THEN 0
                ELSE (IF x.s = 1 THEN 0 - 1 ELSE 1) * x.m * 2^(x.e - e)

FAdd(f, x, y) ==
    IF IsNaN(x) \/ IsNaN(y) THEN NaN
    ELSE IF IsInf(x) THEN (IF IsInf(y) /\ y.s # x.s THEN NaN ELSE x)
    ELSE IF IsInf(y) THEN y
    ELSE IF IsZero(x) /\ IsZero(y) THEN Zero(IF x.s = 1 /\ y.s = 1 THEN 1 ELSE 0)
    ELSE LET e == Min2(IF IsZero(x) THEN y.e ELSE x.e, IF IsZero(y) THEN x.e ELSE y.e)
             v == Scaled(x, e) + Scaled(y, e)
         IN IF v = 0 THEN Zero(0)
            ELSE IF v < 0 THEN Round(f, 1, 0 - v, e, FALSE)
            ELSE Round(f, 0, v, e, FALSE)

FSub(f, x, y) == FAdd(f, x, FNeg(y))

\* x < y, false when either is NaN
FLt(x, y) ==
    IF IsNaN(x) \/ IsNaN(y) THEN FALSE
    ELSE IF IsInf(x) THEN x.s = 1 /\ ~(IsInf(y) /\ y.s = 1)
    ELSE IF IsInf(y) THEN y.s = 0
    ELSE LET e == Min2(IF IsZero(x) THEN y.e ELSE x.e, IF IsZero(y) THEN x.e ELSE y.e)
         IN Scaled(x, e) < Scaled(y, e)

\* x == y of the float type: NaN differs from everything, -0 equals +0
FEq(x, y) ==
    IF IsNaN(x) \/ IsNaN(y) THEN FALSE
    ELSE x = y \/ (IsZero(x) /\ IsZero(y))

\* Float::epsilon(): the gap between 1 and the next float
Epsilon(f) == Fin(0, 2^(f.p - 1), 2 - 2 * f.p)

\* FloatConst::PI(): pi rounded to the format (3294198 = floor(pi * 2^20))
PI(f) == Round(f, 0, 3294198, 0 - 20, TRUE)

\* a small integer literal as a float of the format
Lit(f, n) == IF n < 0 THEN Round(f, 1, 0 - n, 0, FALSE) ELSE Round(f, 0, n, 0, FALSE)

\* f64::from(x) of an f32: the same value in the wide format
F64From(x) ==
    IF IsNaN(x) THEN NaN
    ELSE IF IsInf(x) THEN Inf(x.s)
    ELSE Round(F64, x.s, x.m, x.e, FALSE)

\* all floats of a format
Floats(f) ==
    {NaN} \cup {Inf(s) : s \in {0, 1}} \cup {Zero(s) : s \in {0, 1}}
    \cup {Fin(s, m, QMin(f)) : s \in {0, 1}, m \in 1..(2^(f.p - 1) - 1)}
    \cup {Fin(s, m, e) : s \in {0, 1}, m \in 2^(f.p - 1)..(2^f.p - 1), e \in QMin(f)..QMax(f)}

\* the next float above x (used to enumerate operands close to each other)
NextUp(f, x) ==
    IF ~IsFinite(x) THEN x
    ELSE IF x.m = 0 THEN Fin(0, 1, QMin(f))
    ELSE IF x.s = 0
         THEN IF x.m + 1 < 2^f.p THEN Fin(0, x.m + 1, x.e)
              ELSE IF x.e + 1 > QMax(f) THEN Inf(0)
              ELSE Fin(0, 2^(f.p - 1), x.e + 1)
    ELSE IF x.m = 1 THEN Zero(1)
    ELSE IF x.m = 2^(f.p - 1) /\ x.e > QMin(f) THEN Fin(1, 2^f.p - 1, x.e - 1)
    ELSE Fin(1, x.m - 1, x.e)

\* ------------------------------------------------------------------------
\* Display of a float: the shortest decimal that reads back as the same
\* float, in positional notation, as a sequence of characters
\* ------------------------------------------------------------------------
DigitCh(d) == <<"0", "1", "2", "3", "4", "5", "6", "7", "8", "9">>[d + 1]

RECURSIVE NatText(_)
NatText(n) == IF n < 10 THEN <<DigitCh(n)>> ELSE NatText(n \div 10) \o <<DigitCh(n % 10)>>

RECURSIVE NumDigits(_)
NumDigits(n) == IF n < 10 THEN 1 ELSE 1 + NumDigits(n \div 10)

Zeros(n) == [i \in 1..n |-> "0"]

\* q * 10^j as text, q > 0
DecimalText(q, j) ==
    IF j >= 0 THEN NatText(q) \o Zeros(j)
    ELSE LET k == 0 - j
             ip == q \div 10^k
             fp == q % 10^k
         IN NatText(ip) \o <<".">> \o Zeros(k - NumDigits(fp)) \o NatText(fp)

\* The digits of the positive finite x: the decimal q * 10^j inside the
\* interval of reals that round to x, for the largest j that has one, and
\* among those the nearest to x (the smaller one on a tie).  Values are
\* counted in units of the smallest subnormal, and the interval bounds in
\* halves of that unit.
RECURSIVE Shortest(_, _, _)
Shortest(f, x, j) ==
    LET G == 0 - QMin(f)
        vn == x.m * 2^(x.e + G)
        up == 2^(x.e + G)
        dn == IF x.m = 2^(f.p - 1) /\ x.e > QMin(f) THEN 2^(x.e + G - 1) ELSE up
        lo2 == 2 * vn - dn
        hi2 == 2 * vn + up
        closed == x.m % 2 = 0
        k == IF j < 0 THEN 0 - j ELSE 0
        num == vn * 10^k
        den == 2^G * 10^(j + k)
        Inside(q) == q > 0 /\ (IF closed THEN lo2 * 10^k <= 2 * q * den /\ 2 * q * den <= hi2 * 10^k
                               ELSE lo2 * 10^k < 2 * q * den /\ 2 * q * den < hi2 * 10^k)
        ql == num \div den
        qh == ql + 1
        lowerNearer == num - ql * den <= qh * den - num
    IN IF Inside(ql) /\ (lowerNearer \/ ~Inside(qh)) THEN DecimalText(ql, j)
       ELSE IF Inside(qh) THEN DecimalText(qh, j)
       ELSE Shortest(f, x, j - 1)

\* <N as fmt::Display>::fmt
FmtFloat(f, x) ==
    IF IsNaN(x) THEN <<"N", "a", "N">>
    ELSE (IF x.s = 1 THEN <<"-">> ELSE <<>>) \o
         (IF IsInf(x) THEN <<"i", "n", "f">>
          ELSE IF x.m = 0 THEN <<"0">>
          ELSE Shortest(f, x, NumDigits(2^(f.emax + 1))))

\* ------------------------------------------------------------------------
\* Values of the program: angles, bare numbers and results
\* ------------------------------------------------------------------------
\* Deg<N>(x) and Rad<N>(x), N the narrow format
Deg(x) == [t |-> "deg", v |-> x]
Rad(x) == [t |-> "rad", v |-> x]
\* a bare number of type N, and one of the wide type
Num(x) == [t |-> "f32", v |-> x]
Num64(x) == [t |-> "f64", v |-> x]
Bool(x) == [t |-> "bool", v |-> x]
Text(x) == [t |-> "text", v |-> x]
\* the outcome of a panic (Option::unwrap on None)
Panic == [t |-> "panic", v |-> NaN]
\* no value yet
Unit == [t |-> "unit", v |-> NaN]

None == [some |-> FALSE, v |-> NaN]
Some(x) == [some |-> TRUE, v |-> x]

\* a from_f64 that succeeds only for integers that fit the significand
from_f64_Narrow(f, n) == IF n < 2^f.p THEN Some(Lit(f, n)) ELSE None

\* <N as FromPrimitive>::from_f64 applied to an integral literal: for a
\* float type N the cast `n as N`, which always yields Some
from_f64(f, n) == Some(Lit(f, n))

\* ------------------------------------------------------------------------
\* Deg<N>
\* ------------------------------------------------------------------------
DegValue(self) == self.v

\* to_radians as self.0 * pi / d, without the parentheses
DegToRadians_MulFirst(self) ==
    LET d == from_f64(F32, 180)
    IN IF ~d.some THEN Panic
       ELSE Num(FDiv(F32, FMul(F32, self.v, PI(F32)), d.v))

DegToRadians(self) ==
    LET d == from_f64(F32, 180)
    IN IF ~d.some THEN Panic
       ELSE Num(FMul(F32, self.v, FDiv(F32, PI(F32), d.v)))

\* impl Into<Rad<N>> for Deg<N>
DegIntoRad(self) ==
    LET r == DegToRadians(self)
    IN IF r.t = "panic" THEN Panic ELSE Rad(r.v)

\* a From<N> that takes the bare number to be in radians
DegFrom_AsRadians(value) == Deg(FMul(F32, value, FDiv(F32, Lit(F32, 180), PI(F32))))

\* impl From<N> for Deg<N>
DegFrom(value) == Deg(value)

\* impl fmt::Display for Deg<N>
DegFmt(self) == Text(<<"(">> \o FmtFloat(F32, self.v) \o <<")">>)

\* ------------------------------------------------------------------------
\* Rad<N>
\* ------------------------------------------------------------------------
RadValue(self) == self.v

\* to_degrees with the factor of to_radians
RadToDegrees_Reciprocal(self) ==
    LET d == from_f64(F32, 180)
    IN IF ~d.some THEN Panic
       ELSE Num(FMul(F32, self.v, FDiv(F32, PI(F32), d.v)))

RadToDegrees(self) ==
    LET d == from_f64(F32, 180)
    IN IF ~d.some THEN Panic
       ELSE Num(FMul(F32, self.v, FDiv(F32, d.v, PI(F32))))

\* impl Into<Deg<N>> for Rad<N>
RadIntoDeg(self) ==
    LET r == RadToDegrees(self)
    IN IF r.t = "panic" THEN Panic ELSE Deg(r.v)

\* impl From<N> for Rad<N>
RadFrom(value) == Rad(value)

\* a Display that appends the unit
RadFmt_Suffix(self) == Text(<<"(">> \o FmtFloat(F32, self.v) \o <<")", " ", "r", "a", "d">>)

\* impl fmt::Display for Rad<N>
RadFmt(self) == Text(<<"(">> \o FmtFloat(F32, self.v) \o <<")">>)

\* ------------------------------------------------------------------------
\* T: Into<Deg<N>> and T: Into<Rad<N>>, resolved by the type of the operand
\* ------------------------------------------------------------------------
IntoDeg(x) ==
    CASE x.t = "deg" -> x
      [] x.t = "f32" -> DegFrom(x.v)
      [] x.t = "rad" -> RadIntoDeg(x)

IntoRad(x) ==
    CASE x.t = "rad" -> x
      [] x.t = "f32" -> RadFrom(x.v)
      [] x.t = "deg" -> DegIntoRad(x)

\* approx_eq with <= in place of <
DegApproxEq_Le(self, rhs) ==
    LET r == IntoDeg(rhs)
        d == FAbs(FSub(F32, self.v, r.v))
    IN IF r.t = "panic" THEN Panic
       ELSE Bool(FLt(d, Epsilon(F32)) \/ FEq(d, Epsilon(F32)))

\* approx_eq without the abs()
DegApproxEq_NoAbs(self, rhs) ==
    LET r == IntoDeg(rhs)
    IN IF r.t = "panic" THEN Panic
       ELSE Bool(FLt(FSub(F32, self.v, r.v), Epsilon(F32)))

DegApproxEq(self, rhs) ==
    LET r == IntoDeg(rhs)
    IN IF r.t = "panic" THEN Panic
       ELSE Bool(FLt(FAbs(FSub(F32, self.v, r.v)), Epsilon(F32)))

\* approx_eq as !(difference >= epsilon)
RadApproxEq_NotGe(self, rhs) ==
    LET r == IntoRad(rhs)
        d == FAbs(FSub(F32, self.v, r.v))
    IN IF r.t = "panic" THEN Panic
       ELSE Bool(~(FLt(Epsilon(F32), d) \/ FEq(Epsilon(F32), d)))

RadApproxEq(self, rhs) ==
    LET r == IntoRad(rhs)
    IN IF r.t = "panic" THEN Panic
       ELSE Bool(FLt(FAbs(FSub(F32, self.v, r.v)), Epsilon(F32)))

\* ------------------------------------------------------------------------
\* inexact_eq!
\* ------------------------------------------------------------------------
\* f64::from of either float type
ToF64(x) == IF x.t = "f64" THEN x.v ELSE F64From(x.v)

\* inexact_eq! against std::f32::EPSILON
inexact_eq_F32Epsilon(lhs, rhs) ==
    Bool(FLt(FAbs(FSub(F64, ToF64(lhs), ToF64(rhs))), F64From(Epsilon(F32))))

inexact_eq(lhs, rhs) ==
    Bool(FLt(FAbs(FSub(F64, ToF64(lhs), ToF64(rhs))), Epsilon(F64)))

\* ------------------------------------------------------------------------
\* sum_f32 of test_info
\* ------------------------------------------------------------------------
sum_f32(lhs, rhs) ==
    LET l == IntoDeg(lhs)
        r == IntoDeg(rhs)
    IN IF l.t = "panic" \/ r.t = "panic" THEN Panic
       ELSE Deg(FAdd(F32, DegValue(l), DegValue(r)))

\* ------------------------------------------------------------------------
\* Method dispatch on the receiver's type
\* ------------------------------------------------------------------------
Value(x) == IF x.t = "deg" THEN Num(DegValue(x)) ELSE Num(RadValue(x))
ToOther(x) == IF x.t = "deg" THEN DegToRadians(x) ELSE RadToDegrees(x)
IntoOther(x) == IF x.t = "deg" THEN DegIntoRad(x) ELSE RadIntoDeg(x)
IntoSame(x, y) == IF x.t = "deg" THEN IntoDeg(y) ELSE IntoRad(y)
ApproxEq(x, y) == IF x.t = "deg" THEN DegApproxEq(x, y) ELSE RadApproxEq(x, y)
Fmt(x) == IF x.t = "deg" THEN DegFmt(x) ELSE RadFmt(x)

\* ------------------------------------------------------------------------
\* The state machine: a caller holding an angle `a` and a second operand
\* `b`, calling the operations of the crate
\* ------------------------------------------------------------------------
VARIABLES
    a,      \* the receiver: a Deg<N> or a Rad<N>
    b,      \* the second operand: an angle of either unit or a bare number
    conv,   \* the angle obtained from `a` by `let c = a.into()`, or Unit
    op,     \* the last call: its name and its arguments
    out     \* the value the last call returned

vars == <<a, b, conv, op, out>>

Call(name, args) == [f |-> name, args |-> args]

Other(t) == IF t = "deg" THEN "rad" ELSE "deg"

Angles == {Deg(x) : x \in Floats(F32)} \cup {Rad(x) : x \in Floats(F32)}

\* receivers that are paired with every kind of second operand: the
\* special values, the ends of every binade, the smallest subnormal and
\* the literal of the tests
InSample(x) ==
    \/ ~IsFinite(x)
    \/ x.m \in {0, 1, 2^(P - 1), 2^(P - 1) + 1, 2^P - 1}
    \/ x = Lit(F32, 45)

\* second operands paired with the receiver x: of each producer kind,
\* values equal to, next to and far from the receiver's
Operands(x) ==
    LET c == IntoOther(x).v
        same == {x.v, NextUp(F32, x.v), NaN}
                \cup (IF x.v = Lit(F32, 45) THEN {Lit(F32, 75)} ELSE {})
    IN IF ~InSample(x.v) THEN {x}
       ELSE {[t |-> x.t, v |-> y] : y \in same}
            \cup {Num(y) : y \in same}
            \cup {[t |-> Other(x.t), v |-> y] : y \in {c, NextUp(F32, c)}}
            \cup {Num64(NextUp(F64, F64From(x.v)))}

Init ==
    /\ a \in Angles
    /\ b \in Operands(a)
    /\ conv = Unit
    /\ op = Call("new", <<>>)
    /\ out = Unit

\* a panic aborts the caller
Running == out.t # "panic"

\* a.value()
CallValue ==
    /\ Running
    /\ op' = Call("value", <<a>>)
    /\ out' = Value(a)
    /\ UNCHANGED <<a, b, conv>>

\* a conversion that scales the receiver in place
CallToOther_InPlace ==
    /\ Running
    /\ op' = Call("to_other", <<a>>)
    /\ out' = ToOther(a)
    /\ a' = [a EXCEPT !.v = out'.v]
    /\ UNCHANGED <<b, conv>>

\* a.to_radians() or a.to_degrees()
CallToOther ==
    /\ Running
    /\ op' = Call("to_other", <<a>>)
    /\ out' = ToOther(a)
    /\ UNCHANGED <<a, b, conv>>

\* a.approx_eq(b), for b of a type that is Into<Self>
CallApproxEq ==
    /\ Running
    /\ b.t \in {"deg", "rad", "f32"}
    /\ op' = Call("approx_eq", <<a, b>>)
    /\ out' = ApproxEq(a, b)
    /\ UNCHANGED <<a, b, conv>>

\* let c = a.into(), to the other unit
CallInto ==
    /\ Running
    /\ conv = Unit
    /\ op' = Call("into", <<a>>)
    /\ out' = IntoOther(a)
    /\ conv' = out'
    /\ UNCHANGED <<a, b>>

\* c.into(), back to the unit of a
CallIntoBack ==
    /\ Running
    /\ conv.t \in {"deg", "rad"}
    /\ op' = Call("into_back", <<conv>>)
    /\ out' = IntoOther(conv)
    /\ UNCHANGED <<a, b, conv>>

\* b.into(), to the unit of a: the three producer kinds
CallFrom ==
    /\ Running
    /\ b.t \in {"deg", "rad", "f32"}
    /\ op' = Call("from", <<b>>)
    /\ out' = IntoSame(a, b)
    /\ UNCHANGED <<a, b, conv>>

\* format!("{}", a)
CallFmt ==
    /\ Running
    /\ op' = Call("fmt", <<a>>)
    /\ out' = Fmt(a)
    /\ UNCHANGED <<a, b, conv>>

\* inexact_eq!(b, a.value()) for a bare number b
CallInexactEq ==
    /\ Running
    /\ b.t \in {"f32", "f64"}
    /\ op' = Call("inexact_eq", <<b, Value(a)>>)
    /\ out' = inexact_eq(b, Value(a))
    /\ UNCHANGED <<a, b, conv>>

\* sum_f32(a, b) for operands of one type, angles or bare numbers
CallSum ==
    /\ Running
    /\ \/ b.t = a.t /\ op' = Call("sum_f32", <<a, b>>)
       \/ b.t = "f32" /\ op' = Call("sum_f32", <<Value(a), b>>)
    /\ out' = sum_f32(op'.args[1], op'.args[2])
    /\ UNCHANGED <<a, b, conv>>

Next ==
    \/ CallValue
    \/ CallToOther
    \/ CallApproxEq
    \/ CallInto
    \/ CallIntoBack
    \/ CallFrom
    \/ CallFmt
    \/ CallInexactEq
    \/ CallSum

Spec == Init /\ [][Next]_vars

TypeOK ==
    /\ a.t \in {"deg", "rad"}
    /\ out.t \in {"unit", "f32", "deg", "rad", "bool", "text", "panic"}

\* ------------------------------------------------------------------------
\* Properties
\* ------------------------------------------------------------------------
\* the constants of the two conversions, as the formulas of the
\* documentation write them
RadPerDeg == FDiv(F32, PI(F32), Lit(F32, 180))
DegPerRad == FDiv(F32, Lit(F32, 180), PI(F32))

\* a finite non-negative d is below the epsilon of format f exactly when
\* its leading bit is below 2^(1 - p)
BelowEpsilon(f, d) ==
    /\ IsFinite(d)
    /\ d.s = 0
    /\ d.m = 0 \/ d.e + BitLen(d.m) <= 1 - f.p

\* C1: the three producer kinds agree on same-unit input: a bare number x
\* converts to the angle holding x, whose value() is x; an angle of the
\* requested unit converts to itself; and sum_f32 gives the same result
\* for bare numbers as for the Deg wrappers of the same numbers, namely
\* Deg of their sum (45 and 75 give 120).
C1_ProducersAgree ==
    /\ (op.f = "from" /\ b.t = "f32") =>
          /\ out = [t |-> a.t, v |-> b.v]
          /\ Value(out) = Num(b.v)
    /\ (op.f = "from" /\ b.t = a.t) => out = b
    /\ (op.f = "sum_f32" /\ op.args[1].t \in {"deg", "f32"}) =>
          LET x == op.args[1].v
              y == op.args[2].v
          IN /\ out = Deg(FAdd(F32, x, y))
             /\ sum_f32(Deg(x), Deg(y)) = out
             /\ sum_f32(Num(x), Num(y)) = out
             /\ (x = Lit(F32, 45) /\ y = Lit(F32, 75)) => FEq(out.v, Lit(F32, 120))

C1_Witness ==
    /\ op = Call("sum_f32", <<Num(Lit(F32, 45)), Num(Lit(F32, 75))>>)
    /\ out = Deg(Lit(F32, 120))

\* C2: to_radians is x * (pi / 180) and to_degrees is x * (180 / pi) in
\* the arithmetic of N, and the Into conversion to the other unit wraps
\* exactly the value the method returns.
C2_ConversionFormula ==
    /\ (op.f = "to_other" /\ a.t = "deg") => out = Num(FMul(F32, a.v, RadPerDeg))
    /\ (op.f = "to_other" /\ a.t = "rad") => out = Num(FMul(F32, a.v, DegPerRad))
    /\ (op.f = "into" /\ a.t = "deg") => out = Rad(FMul(F32, a.v, RadPerDeg))
    /\ (op.f = "into" /\ a.t = "rad") => out = Deg(FMul(F32, a.v, DegPerRad))
    /\ op.f = "into" => out = [t |-> Other(a.t), v |-> ToOther(a).v]

C2_Witness ==
    /\ op.f = "into"
    /\ a = Deg(Lit(F32, 45))
    /\ out.t = "rad"
    /\ FLt(Lit(F32, 0), out.v)
    /\ FLt(out.v, Lit(F32, 1))

\* C4: approx_eq converts its operand into the receiver's type (a bare
\* number is wrapped, an angle of the other unit goes through the
\* conversion formula, an angle of the same unit is used as is) and is
\* true exactly when |a.value - converted.value| is strictly below the
\* epsilon of N; a difference equal to epsilon gives false.
C4_ApproxEqStrictEpsilon ==
    op.f = "approx_eq" =>
        LET rhs == op.args[2]
            cv == IF rhs.t = "f32" \/ rhs.t = a.t THEN rhs.v
                  ELSE IF rhs.t = "deg" THEN FMul(F32, rhs.v, RadPerDeg)
                  ELSE FMul(F32, rhs.v, DegPerRad)
            d == FAbs(FSub(F32, a.v, cv))
        IN /\ out = Bool(BelowEpsilon(F32, d))
           /\ d = Epsilon(F32) => out = Bool(FALSE)

C4_Witness ==
    /\ op.f = "approx_eq"
    /\ b.t = a.t
    /\ FAbs(FSub(F32, a.v, b.v)) = Epsilon(F32)
    /\ out = Bool(FALSE)

\* C5: approx_eq of a finite angle with itself is true, and approx_eq is
\* false whenever the receiver's value or the converted operand's value
\* is NaN, NaN against itself included.
C5_ReflexiveRejectsNaN ==
    op.f = "approx_eq" =>
        /\ (op.args[2] = a /\ IsFinite(a.v)) => out = Bool(TRUE)
        /\ (IsNaN(a.v) \/ IsNaN(IntoSame(a, op.args[2]).v)) => out = Bool(FALSE)

C5_Witness ==
    /\ op.f = "approx_eq"
    /\ IsNaN(a.v)
    /\ op.args[2] = a
    /\ out = Bool(FALSE)

\* a finite x is zero or in the normal range of N
IsNormal(x) == IsFinite(x) /\ x.m >= 2^(P - 1)

\* neither multiplication of the round trip left the normal range
RoundTripInRange == IsZero(a.v) \/ (IsNormal(a.v) /\ IsNormal(conv.v) /\ IsNormal(out.v))

\* |z - x| <= 4 * epsilon(N) * |x|, for finite x and z
WithinFourEpsilonOf(x, z) ==
    LET e == Min2(IF IsZero(x) THEN z.e ELSE x.e, IF IsZero(z) THEN x.e ELSE z.e)
        dx == Scaled(z, e) - Scaled(x, e)
        ax == IF Scaled(x, e) < 0 THEN 0 - Scaled(x, e) ELSE Scaled(x, e)
    IN (IF dx < 0 THEN 0 - dx ELSE dx) * 2^(P - 3) <= ax

\* C3 as stated: for every finite x the round trip through the other
\* unit returns a value within double-precision epsilon of x.
C3_RoundTripWithinEpsilon ==
    (op.f = "into_back" /\ IsFinite(a.v)) =>
        inexact_eq(Value(a), Value(out)) = Bool(TRUE)

\* C3 amended: for every finite x whose round trip stays in the normal
\* range (no overflow, no underflow in either multiplication), the result
\* differs from x by at most 4 * epsilon(N) * |x|: a bound relative to x.
C3_RoundTripRelative ==
    (op.f = "into_back" /\ IsFinite(a.v) /\ RoundTripInRange) =>
        /\ out.t = a.t
        /\ IsFinite(out.v)
        /\ WithinFourEpsilonOf(a.v, out.v)

C3_Witness ==
    /\ op.f = "into_back"
    /\ IsFinite(a.v)
    /\ RoundTripInRange
    /\ out.v # a.v
    /\ inexact_eq(Value(a), Value(out)) = Bool(FALSE)

\* C6: no operation fails: no call panics (the 180 of type N is always
\* Some), every call returns a value of its result type, and an infinite
\* angle converts to the infinity of the same sign.
C6_Total ==
    /\ out.t # "panic"
    /\ from_f64(F32, 180).some
    /\ op.f \in {"value", "to_other"} => out.t = "f32"
    /\ op.f = "into" => out.t = Other(a.t)
    /\ op.f \in {"into_back", "from"} => out.t = a.t
    /\ op.f \in {"approx_eq", "inexact_eq"} => out.t = "bool"
    /\ op.f = "fmt" => out.t = "text"
    /\ op.f = "sum_f32" => out.t = "deg"
    /\ (op.f \in {"to_other", "into", "into_back"} /\ IsInf(a.v)) => out.v = a.v

C6_Witness ==
    /\ op.f = "to_other"
    /\ a = Rad(Inf(1))
    /\ out = Num(Inf(1))

\* C7: inexact_eq! widens both operands to the wide format and is true
\* exactly when the absolute difference, taken in the wide format, is
\* strictly below the wide format's epsilon, also for two narrow operands.
C7_InexactEqWideEpsilon ==
    op.f = "inexact_eq" =>
        LET l == op.args[1]
            r == op.args[2]
            wl == IF l.t = "f64" THEN l.v ELSE F64From(l.v)
            wr == IF r.t = "f64" THEN r.v ELSE F64From(r.v)
        IN out = Bool(BelowEpsilon(F64, FAbs(FSub(F64, wl, wr))))

C7_Witness ==
    /\ op.f = "inexact_eq"
    /\ op.args[1].t = "f32"
    /\ op.args[2].t = "f32"
    /\ IsFinite(op.args[1].v)
    /\ BelowEpsilon(F32, FAbs(FSub(F32, op.args[1].v, op.args[2].v)))
    /\ out = Bool(FALSE)

\* C8: Display of an angle is "(" then the Display of its number then
\* ")", with nothing after the parenthesis, the same text for Deg and
\* Rad of one number; Deg(45.0) gives "(45)" and Rad(1.5) gives "(1.5)".
C8_DisplayParenthesised ==
    op.f = "fmt" =>
        /\ out = Text(<<"(">> \o FmtFloat(F32, a.v) \o <<")">>)
        /\ out = DegFmt(Deg(a.v))
        /\ out = RadFmt(Rad(a.v))
        /\ a.v = Lit(F32, 45) => out.v = <<"(", "4", "5", ")">>
        /\ a.v = Fin(0, 3 * 2^(P - 2), 1 - P) => out.v = <<"(", "1", ".", "5", ")">>

C8_Witness ==
    /\ op.f = "fmt"
    /\ a = Rad(Fin(0, 3 * 2^(P - 2), 1 - P))
    /\ out = Text(<<"(", "1", ".", "5", ")">>)

\* C9: every operation is pure: no call changes the receiver or the
\* operand, the converted angle stays what the conversion returned
\* whatever is done with the receiver afterwards, and the same call with
\* the same arguments returns the same value.
C9_Pure ==
    [][/\ a' = a
       /\ b' = b
       /\ conv.t # "unit" => conv' = conv
       /\ conv'.t # "unit" => conv' = IntoOther(a')
       /\ op' = op => out' = out]_vars

C9_Witness ==
    /\ op.f = "to_other"
    /\ conv = IntoOther(a)
    /\ IsFinite(a.v)
    /\ out.v # a.v

\* C10 as stated: approx_eq is symmetric whatever the units: for angles a
\* and b, a.approx_eq(b) equals b.approx_eq(a).
C10_SymmetricAnyUnit ==
    (op.f = "approx_eq" /\ op.args[2].t \in {"deg", "rad"}) =>
        out = ApproxEq(op.args[2], a)

\* C10 amended: approx_eq is symmetric between angles of the same unit.
C10_SymmetricSameUnit ==
    (op.f = "approx_eq" /\ op.args[2].t = a.t) =>
        out = ApproxEq(op.args[2], a)

C10_Witness ==
    /\ op.f = "approx_eq"
    /\ op.args[2].t = a.t
    /\ op.args[2].v # a.v
    /\ out = Bool(TRUE)

====
